---- MODULE Spec2Model ----
(***************************************************************************)
(* A model of src/src/metrics/metrics.ts: the Metrics registry with its    *)
(* Gauge and State members, the flush protocol, and the Reporter that      *)
(* flushes the registry on an interval and submits the result.             *)
(*                                                                         *)
(* JavaScript objects are modelled with their identity where the code      *)
(* hands out references: Gauge and State instances live in gaugeHeap and   *)
(* stateHeap and are named by their index (ref); the tag array given to    *)
(* the Metrics constructor lives in tagArrays.  An optional value          *)
(* (T | undefined) is a sequence of length 0 or 1.                         *)
(***************************************************************************)
EXTENDS Integers, Sequences, FiniteSets, TLC

\* Bounds of the model.
MaxClock == 6          \* SpecGauge: the clock runs to MaxClock quarter seconds

\* Inputs of SpecGauge: one Gauge and one State over a running clock.
ClockGaugeNames == {"p"}
ClockStatePrefixes == {"q"}
ClockLabels == {"x"}
ClockAdvanceMs == {250}
\* Inputs of SpecMetrics: a registry of several members at a fixed clock.
GaugeNames == {"p", "p_x"}
StatePrefixes == {"p", "q"}
Labels == {"x", "y"}
\* Inputs of Spec: the Reporter over a small registry.
MaxHalfSeconds == 4    \* Spec: the clock runs to MaxHalfSeconds half seconds
MaxInFlight == 2       \* Spec: the caller calls Reporter.report() while fewer are in flight
DefaultIntervalMs == 120000
ReportUrl == "https://api.example.test/points"
ReporterGaugeNames == {"p"}
ReporterStatePrefixes == {"q"}
ReporterLabels == {"x"}
ReporterClearOnFlush == {TRUE}
ReporterTagLists == {<<"env:prod">>}
ReporterValues == {3}
ReporterAdvanceMs == {500}
AuthHeaders == [name \in {"DD-API-KEY"} |-> "secret"]
OwnContentType ==
    [name \in {"DD-API-KEY", "Content-Type"} |->
        IF name = "DD-API-KEY" THEN "secret" ELSE "text/plain"]
ReporterOptionSets ==
    {[headers |-> <<>>, intervalMs |-> <<1000>>, abortSignal |-> FALSE, logger |-> FALSE],
     [headers |-> <<AuthHeaders>>, intervalMs |-> <<1000>>, abortSignal |-> TRUE, logger |-> TRUE],
     [headers |-> <<AuthHeaders>>, intervalMs |-> <<1000>>, abortSignal |-> TRUE, logger |-> FALSE],
     [headers |-> <<OwnContentType>>, intervalMs |-> <<1000>>, abortSignal |-> TRUE,
      logger |-> TRUE]}
FetchOutcomes ==
    {[kind |-> "response", ok |-> TRUE, status |-> 200, statusText |-> "OK", text |-> "{}"],
     [kind |-> "response", ok |-> FALSE, status |-> 500, statusText |-> "Server Error",
      text |-> "oops"],
     [kind |-> "throws", ok |-> FALSE, error |-> "TypeError: fetch failed"]}
\* Inputs of both.
Values == {3, 4}
TagLists == {<<>>, <<"env:prod">>}
MutatedNumbers == {99}
MutatedTags == {"mutated"}

VARIABLES
    now,            \* Date.now(), in milliseconds
    tagArrays,      \* heap of string arrays; tagArrays[1] is the constructor's tags argument
    tags,           \* Metrics._tags: a ref into tagArrays
    gaugeHeap,      \* Gauge instances: [name, value, setAt]; setAt is a history field
    gauges,         \* Metrics._gauges: the Map as its entries [key, ref] in insertion order
    stateHeap,      \* State instances: [prefix, clearOnFlush, current]
    states,         \* Metrics._states
    gaugeHandles,   \* what the caller got from gauge(): pairs <<name asked, ref returned>>
    stateHandles,   \* what the caller got from state(): <<name, ref, clearOnFlush asked>>
    held,           \* the series returned by the caller's latest flush, while it keeps them
    heldFrom,       \* which flush returned them: "none", "metrics", "gauge" or "state"
    heldAt,         \* Date.now() of that flush
    tagsGiven,      \* history: the tag list the registry was constructed with
    config,         \* the Reporter's readonly fields, None before it is constructed
    intervalID,     \* Reporter._intervalID
    timers,         \* the runtime's active interval timers: [id, due, period]
    signalAborted,  \* AbortSignal.aborted of the caller's signal
    pending,        \* report() calls suspended in "await report(...)", per origin
    lastOp,         \* what the latest operation of the Reporter did that others can see:
                    \* the fetch request it made, how its promise stands, what it logged
    stats           \* history: timers made, ticks fired, fetch calls made from ticks

registryVars == <<tagArrays, tags, gaugeHeap, gauges, stateHeap, states>>
callerVars == <<gaugeHandles, stateHandles, held, heldFrom, heldAt, tagsGiven>>
reporterVars == <<config, intervalID, timers, signalAborted, pending, lastOp, stats>>
vars == <<now, registryVars, callerVars, reporterVars>>

----------------------------------------------------------------------------
\* Optional values.
None == <<>>
Some(v) == <<v>>

\* Map.get(key): the ref stored under key, as an optional value.
MapGet(map, key) ==
    IF \E i \in 1..Len(map) : map[i].key = key
    THEN Some((CHOOSE e \in {map[i] : i \in 1..Len(map)} : e.key = key).ref)
    ELSE None

\* Map.set(key, ref): replaces the value of an existing key in place, else appends.
MapSet(map, key, ref) ==
    IF \E i \in 1..Len(map) : map[i].key = key
    THEN [i \in 1..Len(map) |-> IF map[i].key = key THEN [key |-> key, ref |-> ref] ELSE map[i]]
    ELSE Append(map, [key |-> key, ref |-> ref])

\* function t(): Math.round(Date.now() / 1000), for ms >= 0 (halves round up).
t(ms) == (ms + 500) \div 1000

\* Gauge.flush handing out the Gauge's own storage instead of a copy.
PointBackingShared(ref) == ref

\* Which storage backs the arrays of a point that Gauge.flush builds for the
\* Gauge instance at ref: 0 is storage allocated by this flush (newDatadagPoint
\* builds new array literals from numbers); a ref would be the value slot of
\* that Gauge instance.
PointBacking(ref) == 0

\* newDatadagPoint that records the value twice: [ts, [value, value]].
newDatadagPointTwoValues(ts, value, backing) ==
    [ts |-> ts, values |-> <<value, value>>, backing |-> backing]

\* function newDatadagPoint(ts, value): [ts, [value]].
newDatadagPoint(ts, value, backing) ==
    [ts |-> ts, values |-> <<value>>, backing |-> backing]

\* Gauge.flush() stamping the point with the time of set().
GaugeFlushAtSetTime(g, ref, ms) ==
    LET points == IF g.value = None
                  THEN <<>>
                  ELSE <<newDatadagPoint(t(g.setAt[1]), g.value[1],
                                         IF ref = 0 THEN 0 ELSE PointBacking(ref))>>
    IN [metric |-> g.name, points |-> points, tags |-> None]

\* Gauge.flush() of the Gauge g at clock reading ms; ref is its place in
\* gaugeHeap, 0 for a Gauge that is not kept there.
GaugeFlush(g, ref, ms) ==
    LET points == IF g.value = None
                  THEN <<>>
                  ELSE <<newDatadagPoint(t(ms), g.value[1],
                                         IF ref = 0 THEN 0 ELSE PointBacking(ref))>>
    IN [metric |-> g.name, points |-> points, tags |-> None]

\* new Gauge(name)
NewGauge(name) == [name |-> name, value |-> None, setAt |-> None]

\* Gauge.set(value), called at clock reading ms.
GaugeSetValue(g, value, ms) == [g EXCEPT !.value = Some(value), !.setAt = Some(ms)]

\* new State(prefix, clearOnFlush)
NewState(prefix, clearOnFlush) ==
    [prefix |-> prefix, clearOnFlush |-> clearOnFlush, current |-> None]

\* The prefix and the label joined without the separator.
JoinNoSeparator(prefix, current) == prefix \o current

\* [prefix, current].join('_')
JoinUnderscore(prefix, current) == prefix \o "_" \o current

\* State.flush(): the optional series it returns.  The synthetic Gauge it
\* builds is flushed at once and dropped.
StateFlush(s, ms) ==
    IF s.current = None
    THEN None
    ELSE LET gauge == GaugeSetValue(NewGauge(JoinUnderscore(s.prefix, s.current[1])), 1, ms)
         IN Some(GaugeFlush(gauge, 0, ms))

\* State.flush() that never clears.
StateAfterFlushKeeps(s) == s

\* State.flush(): the State afterwards.
StateAfterFlush(s) ==
    IF s.current # None /\ s.clearOnFlush THEN [s EXCEPT !.current = None] ELSE s

\* Metrics.flush(): "if (this._tags.length > 0) series.tags = this._tags".
WithTags(series) ==
    IF Len(tagArrays[tags]) > 0 THEN [series EXCEPT !.tags = Some(tags)] ELSE series

RECURSIVE Flatten(_)
Flatten(seqs) == IF seqs = <<>> THEN <<>> ELSE Head(seqs) \o Flatten(Tail(seqs))

\* Metrics.flush() that attaches the tags to the series of gauges only.
MetricsFlushUntaggedStates(ms) ==
    LET fromGauges == [i \in 1..Len(gauges) |-> WithTags(GaugeFlush(gaugeHeap[gauges[i].ref], gauges[i].ref, ms))]
        fromStates == [i \in 1..Len(states) |->
                          LET series == StateFlush(stateHeap[states[i].ref], ms)
                          IN IF series # None THEN <<series[1]>> ELSE <<>>]
    IN fromGauges \o Flatten(fromStates)

\* Metrics.flush() that emits the states before the gauges.
MetricsFlushStatesFirst(ms) ==
    LET fromGauges == [i \in 1..Len(gauges) |-> WithTags(GaugeFlush(gaugeHeap[gauges[i].ref], gauges[i].ref, ms))]
        fromStates == [i \in 1..Len(states) |->
                          LET series == StateFlush(stateHeap[states[i].ref], ms)
                          IN IF series # None THEN <<WithTags(series[1])>> ELSE <<>>]
    IN Flatten(fromStates) \o fromGauges

\* Metrics.flush(): the array it returns, at clock reading ms.
MetricsFlush(ms) ==
    LET fromGauges == [i \in 1..Len(gauges) |-> WithTags(GaugeFlush(gaugeHeap[gauges[i].ref], gauges[i].ref, ms))]
        fromStates == [i \in 1..Len(states) |->
                          LET series == StateFlush(stateHeap[states[i].ref], ms)
                          IN IF series # None THEN <<WithTags(series[1])>> ELSE <<>>]
    IN fromGauges \o Flatten(fromStates)

\* Metrics.flush() that unsets the label of every State.
StatesAfterFlushClearsAll ==
    [r \in DOMAIN stateHeap |-> [stateHeap[r] EXCEPT !.current = None]]

\* Metrics.flush(): the State instances afterwards.
StatesAfterFlush ==
    [r \in DOMAIN stateHeap |->
        IF \E i \in 1..Len(states) : states[i].ref = r
        THEN StateAfterFlush(stateHeap[r])
        ELSE stateHeap[r]]

----------------------------------------------------------------------------
\* The caller lets go of the series it holds when it next calls into the registry.
Release == held' = <<>> /\ heldFrom' = "none" /\ heldAt' = 0

\* Metrics.gauge(name) without the lookup: a new Gauge on every call.
MetricsGaugeAlwaysNew(name) ==
    LET ref == Len(gaugeHeap) + 1
    IN /\ gaugeHeap' = Append(gaugeHeap, NewGauge(name))
       /\ gauges' = MapSet(gauges, name, ref)
       /\ gaugeHandles' = gaugeHandles \cup {<<name, ref>>}
       /\ Release
       /\ UNCHANGED <<now, tagArrays, tags, stateHeap, states, stateHandles, tagsGiven,
                      reporterVars>>

\* Metrics.gauge(name)
MetricsGauge(name) ==
    LET found == MapGet(gauges, name)
        ref == IF found = None THEN Len(gaugeHeap) + 1 ELSE found[1]
    IN /\ gaugeHeap' = IF found = None THEN Append(gaugeHeap, NewGauge(name)) ELSE gaugeHeap
       /\ gauges' = IF found = None THEN MapSet(gauges, name, ref) ELSE gauges
       /\ gaugeHandles' = gaugeHandles \cup {<<name, ref>>}
       /\ Release
       /\ UNCHANGED <<now, tagArrays, tags, stateHeap, states, stateHandles, tagsGiven,
                      reporterVars>>

\* Metrics.state(name, clearOnFlush) over one namespace: the name is taken
\* from the gauges.
MetricsStateOneMap(name, clearOnFlush) ==
    LET found == MapGet(states, name)
        ref == IF found = None THEN Len(stateHeap) + 1 ELSE found[1]
    IN /\ stateHeap' = IF found = None
                       THEN Append(stateHeap, NewState(name, clearOnFlush))
                       ELSE stateHeap
       /\ states' = IF found = None THEN MapSet(states, name, ref) ELSE states
       /\ gauges' = SelectSeq(gauges, LAMBDA entry : entry.key # name)
       /\ stateHandles' = stateHandles \cup {<<name, ref, clearOnFlush>>}
       /\ Release
       /\ UNCHANGED <<now, tagArrays, tags, gaugeHeap, gaugeHandles, tagsGiven,
                      reporterVars>>

\* Metrics.state(name, clearOnFlush) where the flag of the latest call wins.
MetricsStateLastFlagWins(name, clearOnFlush) ==
    LET found == MapGet(states, name)
        ref == IF found = None THEN Len(stateHeap) + 1 ELSE found[1]
    IN /\ stateHeap' = IF found = None
                       THEN Append(stateHeap, NewState(name, clearOnFlush))
                       ELSE [stateHeap EXCEPT ![ref].clearOnFlush = clearOnFlush]
       /\ states' = IF found = None THEN MapSet(states, name, ref) ELSE states
       /\ stateHandles' = stateHandles \cup {<<name, ref, clearOnFlush>>}
       /\ Release
       /\ UNCHANGED <<now, tagArrays, tags, gaugeHeap, gauges, gaugeHandles, tagsGiven,
                      reporterVars>>

\* Metrics.state(name, clearOnFlush)
MetricsState(name, clearOnFlush) ==
    LET found == MapGet(states, name)
        ref == IF found = None THEN Len(stateHeap) + 1 ELSE found[1]
    IN /\ stateHeap' = IF found = None
                       THEN Append(stateHeap, NewState(name, clearOnFlush))
                       ELSE stateHeap
       /\ states' = IF found = None THEN MapSet(states, name, ref) ELSE states
       /\ stateHandles' = stateHandles \cup {<<name, ref, clearOnFlush>>}
       /\ Release
       /\ UNCHANGED <<now, tagArrays, tags, gaugeHeap, gauges, gaugeHandles, tagsGiven,
                      reporterVars>>

\* Gauge.set(value) through a handle the caller holds.
GaugeSet(h, value) ==
    /\ h \in gaugeHandles
    /\ gaugeHeap' = [gaugeHeap EXCEPT ![h[2]] = GaugeSetValue(@, value, now)]
    /\ Release
    /\ UNCHANGED <<now, tagArrays, tags, gauges, stateHeap, states,
                   gaugeHandles, stateHandles, tagsGiven, reporterVars>>

\* State.set(state) through a handle the caller holds.
StateSet(h, label) ==
    /\ h \in stateHandles
    /\ stateHeap' = [stateHeap EXCEPT ![h[2]].current = Some(label)]
    /\ Release
    /\ UNCHANGED <<now, tagArrays, tags, gaugeHeap, gauges, states,
                   gaugeHandles, stateHandles, tagsGiven, reporterVars>>

\* State.clear() through a handle the caller holds.
StateClear(h) ==
    /\ h \in stateHandles
    /\ stateHeap' = [stateHeap EXCEPT ![h[2]].current = None]
    /\ Release
    /\ UNCHANGED <<now, tagArrays, tags, gaugeHeap, gauges, states,
                   gaugeHandles, stateHandles, tagsGiven, reporterVars>>

\* The caller calls Metrics.flush() and keeps the result.
CallMetricsFlush ==
    /\ held' = MetricsFlush(now)
    /\ heldFrom' = "metrics"
    /\ heldAt' = now
    /\ stateHeap' = StatesAfterFlush
    /\ UNCHANGED <<now, tagArrays, tags, gaugeHeap, gauges, states,
                   gaugeHandles, stateHandles, tagsGiven, reporterVars>>

\* Gauge.flush() that forgets the value once it has reported it.
CallGaugeFlushClears(h) ==
    /\ h \in gaugeHandles
    /\ held' = <<GaugeFlush(gaugeHeap[h[2]], h[2], now)>>
    /\ heldFrom' = "gauge"
    /\ heldAt' = now
    /\ gaugeHeap' = [gaugeHeap EXCEPT ![h[2]].value = None]
    /\ UNCHANGED <<now, tagArrays, tags, gauges, stateHeap, states,
                   gaugeHandles, stateHandles, tagsGiven, reporterVars>>

\* The caller calls Gauge.flush() on a handle and keeps the result.
CallGaugeFlush(h) ==
    /\ h \in gaugeHandles
    /\ held' = <<GaugeFlush(gaugeHeap[h[2]], h[2], now)>>
    /\ heldFrom' = "gauge"
    /\ heldAt' = now
    /\ UNCHANGED <<now, registryVars, gaugeHandles, stateHandles, tagsGiven, reporterVars>>

\* The caller calls State.flush() on a handle and keeps the result.
CallStateFlush(h) ==
    /\ h \in stateHandles
    /\ held' = StateFlush(stateHeap[h[2]], now)
    /\ heldFrom' = "state"
    /\ heldAt' = now
    /\ stateHeap' = [stateHeap EXCEPT ![h[2]] = StateAfterFlush(@)]
    /\ UNCHANGED <<now, tagArrays, tags, gaugeHeap, gauges, states,
                   gaugeHandles, stateHandles, tagsGiven, reporterVars>>

\* The caller writes into a point of a series it holds:
\* series.points[0][0] = n and series.points[0][1][0] = n.  The write lands in
\* the storage that backs the point.
MutateHeldPoint(i, n) ==
    /\ i \in 1..Len(held)
    /\ held[i].points # <<>>
    /\ LET backing == held[i].points[1].backing
       IN IF backing = 0
          THEN /\ held' = [held EXCEPT ![i].points[1].ts = n, ![i].points[1].values = <<n>>]
               /\ UNCHANGED gaugeHeap
          ELSE /\ held' = [held EXCEPT ![i].points[1].ts = n]
               /\ gaugeHeap' = [gaugeHeap EXCEPT ![backing].value = Some(n)]
    /\ UNCHANGED <<now, tagArrays, tags, gauges, stateHeap, states,
                   gaugeHandles, stateHandles, heldFrom, heldAt, tagsGiven, reporterVars>>

\* The caller writes into the tags of a series it holds: series.tags[0] = tag.
\* series.tags is a reference, so the write lands in the array it refers to.
MutateHeldTags(i, tag) ==
    /\ i \in 1..Len(held)
    /\ held[i].tags # None
    /\ tagArrays' = [tagArrays EXCEPT ![held[i].tags[1]][1] = tag]
    /\ UNCHANGED <<now, tags, gaugeHeap, gauges, stateHeap, states, callerVars, reporterVars>>

\* The clock advances by d ms.  An interval timer that is due fires before the
\* clock moves past it.
AdvanceTime(d, limit) ==
    /\ now + d <= limit
    /\ \A timer \in timers : now + d <= timer.due
    /\ now' = now + d
    /\ UNCHANGED <<registryVars, callerVars, reporterVars>>

----------------------------------------------------------------------------
\* The Reporter.

\* A Record<string, string> is a function from header names to values.
EmptyHeaders == [name \in {} |-> ""]

\* {...a, ...b}: the properties of a, then those of b over them.
Spread(a, b) ==
    [name \in DOMAIN a \cup DOMAIN b |-> IF name \in DOMAIN b THEN b[name] ELSE a[name]]

\* JSON.stringify of the values that occur in a series.  The strings of the
\* model hold no character that JSON escapes.
RECURSIVE JoinComma(_)
JoinComma(texts) ==
    IF texts = <<>> THEN ""
    ELSE IF Len(texts) = 1 THEN texts[1]
    ELSE texts[1] \o "," \o JoinComma(Tail(texts))

StringifyString(str) == "\"" \o str \o "\""
StringifyArray(texts) == "[" \o JoinComma(texts) \o "]"

\* The values array of a point, read from the storage that backs it.
PointValues(point) ==
    IF point.backing = 0 THEN point.values ELSE gaugeHeap[point.backing].value

StringifyPoint(point) ==
    StringifyArray(<<ToString(point.ts),
                     StringifyArray([k \in 1..Len(PointValues(point)) |->
                                        ToString(PointValues(point)[k])])>>)

\* A DatadogSeries: metric, points, then tags when the property is present.
StringifySeries(series) ==
    "{\"metric\":" \o StringifyString(series.metric)
    \o ",\"points\":"
    \o StringifyArray([k \in 1..Len(series.points) |-> StringifyPoint(series.points[k])])
    \o (IF series.tags = None THEN ""
        ELSE ",\"tags\":"
             \o StringifyArray([k \in 1..Len(tagArrays[series.tags[1]]) |->
                                   StringifyString(tagArrays[series.tags[1]][k])]))
    \o "}"

\* function report(...) sending the bare array instead of {series: [...]}.
ReportRequestBare(url, extraHeaders, allSeries) ==
    [url |-> url,
     method |-> "POST",
     headers |-> Spread([name \in {"Content-Type"} |-> "application/json"], extraHeaders),
     body |-> StringifyArray([k \in 1..Len(allSeries) |-> StringifySeries(allSeries[k])])]

\* function report(url, extraHeaders, allSeries): the request it hands to fetch.
ReportRequest(url, extraHeaders, allSeries) ==
    [url |-> url,
     method |-> "POST",
     headers |-> Spread([name \in {"Content-Type"} |-> "application/json"], extraHeaders),
     body |-> "{\"series\":"
              \o StringifyArray([k \in 1..Len(allSeries) |-> StringifySeries(allSeries[k])])
              \o "}"]

\* function report(...) once fetch has settled: it returns the response, or
\* throws what fetch threw, or throws on a response that is not ok.
ReportResult(outcome) ==
    IF outcome.kind = "throws"
    THEN [throws |-> TRUE, error |-> outcome.error]
    ELSE IF ~outcome.ok
    THEN [throws |-> TRUE,
          error |-> "Error: unexpected response: " \o ToString(outcome.status) \o " "
                    \o outcome.statusText \o " body: " \o outcome.text]
    ELSE [throws |-> FALSE, error |-> ""]

\* Reporter.report() without the try/catch: what report(...) throws rejects it.
ReportSettleRethrows(result) ==
    IF result.throws
    THEN [promise |-> "rejected", error |-> None]
    ELSE [promise |-> "fulfilled", error |-> None]

\* Reporter.report() resumed after "await report(...)": the try/catch.  What
\* it logs at error level, and how its promise settles.
ReportSettle(result) ==
    IF result.throws
    THEN [promise |-> "fulfilled", error |-> Some("Error reporting metrics: " \o result.error)]
    ELSE [promise |-> "fulfilled", error |-> None]

\* this._logger?.debug?.(message) and this._logger?.error?.(message)
LogDebug(cfg, log, message) ==
    IF cfg.logger THEN Append(log, [level |-> "debug", message |-> message]) ELSE log

LogError(cfg, log, message) ==
    IF cfg.logger THEN Append(log, [level |-> "error", message |-> message]) ELSE log

\* What an operation of the Reporter shows: op is "none", "new", "abort",
\* "report" (report() up to its first await) or "settle" (report() resumed).
NoOp ==
    [op |-> "none", origin |-> "", flushed |-> <<>>, request |-> None,
     promise |-> "none", failed |-> FALSE, log |-> <<>>]

\* Reporter._startInterval(): the timers and the _intervalID afterwards, and
\* the log with what it wrote added.
StartInterval(cfg, log) ==
    IF intervalID # 0
    THEN [timers |-> timers, intervalID |-> intervalID, log |-> log]
    ELSE LET id == stats.setIntervals + 1
         IN [timers |-> timers \cup {[id |-> id, due |-> now + cfg.intervalMs,
                                      period |-> cfg.intervalMs]},
             intervalID |-> id,
             log |-> LogDebug(cfg, log, "Metrics Reporter starter")]

\* Reporter._stopInterval() that resets _intervalID and forgets clearInterval.
StopIntervalKeepsTimer == [timers |-> timers, intervalID |-> 0]

\* Reporter._stopInterval(): the timers and the _intervalID afterwards.
StopInterval ==
    IF intervalID # 0
    THEN [timers |-> {timer \in timers : timer.id # intervalID}, intervalID |-> 0]
    ELSE [timers |-> timers, intervalID |-> intervalID]

\* new Reporter(options) that looks at abortSignal.aborted and starts no
\* timer when the signal has fired already.
NewReporterChecksAborted(options) ==
    /\ config = None
    /\ LET cfg == [url |-> ReportUrl,
                   headers |-> IF options.headers = None THEN EmptyHeaders
                               ELSE options.headers[1],
                   intervalMs |-> IF options.intervalMs = None \/ options.intervalMs = Some(0)
                                  THEN DefaultIntervalMs
                                  ELSE options.intervalMs[1],
                   abortSignal |-> options.abortSignal,
                   logger |-> options.logger,
                   startedAt |-> now,
                   abortedBefore |-> signalAborted]
           started == IF options.abortSignal /\ signalAborted
                      THEN [timers |-> timers, intervalID |-> 0, log |-> <<>>]
                      ELSE StartInterval(cfg, <<>>)
       IN /\ config' = Some(cfg)
          /\ timers' = started.timers
          /\ intervalID' = started.intervalID
          /\ lastOp' = [NoOp EXCEPT !.op = "new", !.log = started.log]
          /\ stats' = [stats EXCEPT !.setIntervals = @ + Cardinality(started.timers \ timers)]
    /\ UNCHANGED <<now, registryVars, callerVars, signalAborted, pending>>

\* new Reporter(options)
NewReporter(options) ==
    /\ config = None
    /\ LET cfg == [url |-> ReportUrl,
                   headers |-> IF options.headers = None THEN EmptyHeaders
                               ELSE options.headers[1],
                   intervalMs |-> IF options.intervalMs = None \/ options.intervalMs = Some(0)
                                  THEN DefaultIntervalMs
                                  ELSE options.intervalMs[1],
                   abortSignal |-> options.abortSignal,
                   logger |-> options.logger,
                   startedAt |-> now,
                   abortedBefore |-> signalAborted]
           started == StartInterval(cfg, <<>>)
       IN /\ config' = Some(cfg)
          /\ timers' = started.timers
          /\ intervalID' = started.intervalID
          /\ lastOp' = [NoOp EXCEPT !.op = "new", !.log = started.log]
          /\ stats' = [stats EXCEPT !.setIntervals = @ + Cardinality(started.timers \ timers)]
    /\ UNCHANGED <<now, registryVars, callerVars, signalAborted, pending>>

\* An abort listener that also gives up the sends in flight.
AbortCancelsPending ==
    /\ ~signalAborted
    /\ signalAborted' = TRUE
    /\ IF config # None /\ config[1].abortSignal
       THEN /\ timers' = StopInterval.timers
            /\ intervalID' = StopInterval.intervalID
            /\ pending' = [tick |-> 0, manual |-> 0]
            /\ lastOp' = [NoOp EXCEPT !.op = "abort",
                                      !.log = LogDebug(config[1], <<>>, "Metrics Reporter aborted")]
       ELSE UNCHANGED <<timers, intervalID, lastOp, pending>>
    /\ UNCHANGED <<now, registryVars, callerVars, config, stats>>

\* The caller's AbortSignal fires.  The listener the constructor registered
\* runs if the Reporter was given the signal before it fired.
Abort ==
    /\ ~signalAborted
    /\ signalAborted' = TRUE
    /\ IF config # None /\ config[1].abortSignal
       THEN /\ timers' = StopInterval.timers
            /\ intervalID' = StopInterval.intervalID
            /\ lastOp' = [NoOp EXCEPT !.op = "abort",
                                      !.log = LogDebug(config[1], <<>>, "Metrics Reporter aborted")]
       ELSE UNCHANGED <<timers, intervalID, lastOp>>
    /\ UNCHANGED <<now, registryVars, callerVars, config, pending, stats>>

\* Reporter.report() without the early return on an empty flush.
ReporterReportNoSkip(origin) ==
    LET cfg == config[1]
        allSeries == MetricsFlush(now)
    IN /\ stateHeap' = StatesAfterFlush
       /\ lastOp' = [NoOp EXCEPT !.op = "report", !.origin = origin,
                                 !.flushed = allSeries,
                                 !.request = Some(ReportRequest(cfg.url, cfg.headers, allSeries)),
                                 !.promise = "pending"]
       /\ pending' = [pending EXCEPT ![origin] = @ + 1]
       /\ stats' = IF origin = "tick"
                   THEN [stats EXCEPT !.ticks = @ + 1, !.tickCalls = @ + 1]
                   ELSE stats

\* Reporter.report() up to its first await, called from origin "tick" or "manual".
ReporterReport(origin) ==
    LET cfg == config[1]
        allSeries == MetricsFlush(now)
    IN /\ stateHeap' = StatesAfterFlush
       /\ IF Len(allSeries) = 0
          THEN /\ lastOp' = [NoOp EXCEPT !.op = "report", !.origin = origin,
                                         !.promise = "fulfilled",
                                         !.log = LogDebug(cfg, <<>>, "No metrics to report")]
               /\ UNCHANGED pending
          ELSE /\ lastOp' = [NoOp EXCEPT !.op = "report", !.origin = origin,
                                         !.flushed = allSeries,
                                         !.request = Some(ReportRequest(cfg.url, cfg.headers,
                                                                        allSeries)),
                                         !.promise = "pending"]
               /\ pending' = [pending EXCEPT ![origin] = @ + 1]
       /\ stats' = IF origin = "tick"
                   THEN [stats EXCEPT !.ticks = @ + 1,
                                      !.tickCalls = IF Len(allSeries) = 0 THEN @ ELSE @ + 1]
                   ELSE stats

\* A tick that skips report() while a send is in flight.
TickSerialized(timer) ==
    /\ timer \in timers
    /\ timer.due = now
    /\ timers' = (timers \ {timer}) \cup {[timer EXCEPT !.due = @ + timer.period]}
    /\ IF pending["tick"] + pending["manual"] = 0
       THEN ReporterReport("tick")
       ELSE /\ stats' = [stats EXCEPT !.ticks = @ + 1]
            /\ UNCHANGED <<stateHeap, lastOp, pending>>
    /\ UNCHANGED <<now, tagArrays, tags, gaugeHeap, gauges, states, callerVars,
                   config, intervalID, signalAborted>>

\* An interval timer fires: the runtime re-arms it one period after its due
\* time and runs the callback, "void this.report()".
Tick(timer) ==
    /\ timer \in timers
    /\ timer.due = now
    /\ timers' = (timers \ {timer}) \cup {[timer EXCEPT !.due = @ + timer.period]}
    /\ ReporterReport("tick")
    /\ UNCHANGED <<now, tagArrays, tags, gaugeHeap, gauges, states, callerVars,
                   config, intervalID, signalAborted>>

\* Reporter.report() that sends nothing once the timer is stopped: it
\* flushes and returns.
ManualReportSkipsWhenStopped ==
    /\ config # None
    /\ pending["tick"] + pending["manual"] < MaxInFlight
    /\ IF intervalID # 0
       THEN ReporterReport("manual")
       ELSE /\ stateHeap' = StatesAfterFlush
            /\ lastOp' = [NoOp EXCEPT !.op = "report", !.origin = "manual",
                                      !.promise = "fulfilled"]
            /\ UNCHANGED <<pending, stats>>
    /\ UNCHANGED <<now, tagArrays, tags, gaugeHeap, gauges, states, callerVars,
                   config, intervalID, timers, signalAborted>>

\* Reporter.report() that makes sure the timer runs: it calls _startInterval.
ManualReportRestarts ==
    /\ config # None
    /\ pending["tick"] + pending["manual"] < MaxInFlight
    /\ ReporterReport("manual")
    /\ timers' = StartInterval(config[1], <<>>).timers
    /\ intervalID' = StartInterval(config[1], <<>>).intervalID
    /\ UNCHANGED <<now, tagArrays, tags, gaugeHeap, gauges, states, callerVars,
                   config, signalAborted>>

\* The caller calls Reporter.report() itself.
ManualReport ==
    /\ config # None
    /\ pending["tick"] + pending["manual"] < MaxInFlight
    /\ ReporterReport("manual")
    /\ UNCHANGED <<now, tagArrays, tags, gaugeHeap, gauges, states, callerVars,
                   config, intervalID, timers, signalAborted>>

\* A timer chained to the end of report(): the next tick is one period after
\* the send has ended.
FetchSettlesRearms(origin, outcome) ==
    /\ pending[origin] > 0
    /\ pending' = [pending EXCEPT ![origin] = @ - 1]
    /\ LET settle == ReportSettle(ReportResult(outcome))
       IN lastOp' = [NoOp EXCEPT !.op = "settle", !.origin = origin,
                                 !.promise = settle.promise,
                                 !.failed = ~outcome.ok,
                                 !.log = IF settle.error = None THEN <<>>
                                         ELSE LogError(config[1], <<>>, settle.error[1])]
    /\ timers' = {[timer EXCEPT !.due = now + timer.period] : timer \in timers}
    /\ UNCHANGED <<now, registryVars, callerVars, config, intervalID, signalAborted, stats>>

\* A report() that sends again after a failure instead of ending.
FetchSettlesRetries(origin, outcome) ==
    /\ pending[origin] > 0
    /\ pending' = IF outcome.ok THEN [pending EXCEPT ![origin] = @ - 1] ELSE pending
    /\ LET settle == ReportSettle(ReportResult(outcome))
       IN /\ lastOp' = [NoOp EXCEPT !.op = "settle", !.origin = origin,
                                    !.promise = IF outcome.ok THEN settle.promise ELSE "pending",
                                    !.failed = ~outcome.ok,
                                    !.log = IF settle.error = None THEN <<>>
                                            ELSE LogError(config[1], <<>>, settle.error[1])]
          /\ timers' = IF settle.promise = "rejected" /\ origin = "tick" THEN {} ELSE timers
    /\ UNCHANGED <<now, registryVars, callerVars, config, intervalID, signalAborted, stats>>

\* fetch settles for one suspended report() and the report() runs to its end.
\* A rejected promise nobody handles ends the process (node >= 17.5): that is
\* the fate of a rejection of the timer's "void this.report()".
FetchSettles(origin, outcome) ==
    /\ pending[origin] > 0
    /\ pending' = [pending EXCEPT ![origin] = @ - 1]
    /\ LET settle == ReportSettle(ReportResult(outcome))
       IN /\ lastOp' = [NoOp EXCEPT !.op = "settle", !.origin = origin,
                                    !.promise = settle.promise,
                                    !.failed = ~outcome.ok,
                                    !.log = IF settle.error = None THEN <<>>
                                            ELSE LogError(config[1], <<>>, settle.error[1])]
          /\ timers' = IF settle.promise = "rejected" /\ origin = "tick" THEN {} ELSE timers
    /\ UNCHANGED <<now, registryVars, callerVars, config, intervalID, signalAborted, stats>>

\* The registry and the Reporter before any call.
InitRegistry(tagLists) ==
    /\ now = 0
    /\ tagArrays \in {<<tagList>> : tagList \in tagLists}
    /\ tagsGiven = tagArrays[1]
    /\ tags = 1
    /\ gaugeHeap = <<>>
    /\ gauges = <<>>
    /\ stateHeap = <<>>
    /\ states = <<>>
    /\ gaugeHandles = {}
    /\ stateHandles = {}
    /\ held = <<>>
    /\ heldFrom = "none"
    /\ heldAt = 0

InitReporter ==
    /\ config = None
    /\ intervalID = 0
    /\ timers = {}
    /\ signalAborted = FALSE
    /\ pending = [tick |-> 0, manual |-> 0]
    /\ lastOp = NoOp
    /\ stats = [setIntervals |-> 0, ticks |-> 0, tickCalls |-> 0]

\* new Metrics(tags) with any of the tag lists.
InitMetrics == InitRegistry(TagLists) /\ InitReporter

\* new Metrics(tags) of the Reporter's registry.
Init == InitRegistry(ReporterTagLists) /\ InitReporter

\* The Reporter over a small registry.
Next ==
    \/ \E name \in ReporterGaugeNames : MetricsGauge(name)
    \/ \E name \in ReporterStatePrefixes, c \in ReporterClearOnFlush : MetricsState(name, c)
    \/ \E h \in gaugeHandles, v \in ReporterValues : GaugeSet(h, v)
    \/ \E h \in stateHandles, l \in ReporterLabels : StateSet(h, l)
    \/ \E options \in ReporterOptionSets : NewReporter(options)
    \/ Abort
    \/ \E timer \in timers : Tick(timer)
    \/ ManualReport
    \/ \E origin \in {"tick", "manual"}, outcome \in FetchOutcomes : FetchSettles(origin, outcome)
    \/ \E d \in ReporterAdvanceMs : AdvanceTime(d, MaxHalfSeconds * 500)

Spec == Init /\ [][Next]_vars

\* One Gauge and one State over a running clock.
NextGauge ==
    \/ \E name \in ClockGaugeNames : MetricsGauge(name)
    \/ \E name \in ClockStatePrefixes, c \in BOOLEAN : MetricsState(name, c)
    \/ \E h \in gaugeHandles, v \in Values : GaugeSet(h, v)
    \/ \E h \in stateHandles, l \in ClockLabels : StateSet(h, l)
    \/ CallMetricsFlush
    \/ \E h \in gaugeHandles : CallGaugeFlush(h)
    \/ \E h \in stateHandles : CallStateFlush(h)
    \/ \E i \in 1..2, n \in MutatedNumbers : MutateHeldPoint(i, n)
    \/ \E d \in ClockAdvanceMs : AdvanceTime(d, MaxClock * 250)

SpecGauge == InitMetrics /\ [][NextGauge]_vars

\* A registry of several members at a fixed clock.
NextMetrics ==
    \/ \E name \in GaugeNames : MetricsGauge(name)
    \/ \E name \in StatePrefixes, c \in BOOLEAN : MetricsState(name, c)
    \/ \E h \in gaugeHandles, v \in Values : GaugeSet(h, v)
    \/ \E h \in stateHandles, l \in Labels : StateSet(h, l)
    \/ \E h \in stateHandles : StateClear(h)
    \/ CallMetricsFlush
    \/ \E h \in gaugeHandles : CallGaugeFlush(h)
    \/ \E h \in stateHandles : CallStateFlush(h)
    \/ \E i \in 1..4, tag \in MutatedTags : MutateHeldTags(i, tag)

SpecMetrics == InitMetrics /\ [][NextMetrics]_vars

----------------------------------------------------------------------------
\* The claims.

\* The value of a series as a Gauge holds it: optional.
SeriesValue(series) ==
    IF series.points = <<>> THEN None ELSE Some(PointValues(series.points[1])[1])

\* No point of the held series was written to by the caller.
HeldIntact ==
    \A i \in 1..Len(held) :
        \A k \in 1..Len(held[i].points) : held[i].points[k].ts \notin MutatedNumbers

\* C1: gauge(n) returns the same Gauge for the same name and different Gauges
\* for different names, and what was set through a handle is what the
\* registry's flush() reports under that name.
C1_GaugeIdentity ==
    /\ \A h1 \in gaugeHandles, h2 \in gaugeHandles : (h1[1] = h2[1]) <=> (h1[2] = h2[2])
    /\ heldFrom = "metrics" =>
          \A h \in gaugeHandles :
             \E i \in 1..Len(held) :
                /\ held[i].metric = h[1]
                /\ SeriesValue(held[i]) = gaugeHeap[h[2]].value

C1_Witness ==
    /\ heldFrom = "metrics"
    /\ Cardinality(gaugeHandles) = 2
    /\ states # <<>>
    /\ \E h1 \in gaugeHandles, h2 \in gaugeHandles :
          gaugeHeap[h1[2]].value = Some(3) /\ gaugeHeap[h2[2]].value = Some(4)

\* C7 as claimed: a flushed Gauge yields one series with one point whose
\* timestamp is the flush time truncated to whole seconds.
C7_TruncatedSeconds ==
    (heldFrom = "gauge" /\ HeldIntact /\ held[1].points # <<>>) =>
        /\ Len(held) = 1
        /\ Len(held[1].points) = 1
        /\ held[1].points[1].ts = heldAt \div 1000
        /\ Len(held[1].points[1].values) = 1

\* C8: a point carries the seconds of the clock at the flush that built it,
\* whenever the value was set; so flushes at different seconds differ.
C8_StampedAtFlush ==
    (heldFrom # "none" /\ HeldIntact) =>
        \A i \in 1..Len(held) :
            \A k \in 1..Len(held[i].points) : held[i].points[k].ts = t(heldAt)

C8_Witness ==
    /\ heldFrom = "gauge"
    /\ HeldIntact
    /\ held[1].points # <<>>
    /\ \E h \in gaugeHandles :
          /\ gaugeHeap[h[2]].setAt # None
          /\ t(gaugeHeap[h[2]].setAt[1]) # held[1].points[1].ts

\* C9: a write of the caller into a point it got from flush() changes no
\* Gauge: every Gauge flushes afterwards to what it flushed to before.
C9_FlushNotAliased ==
    [][(\E i \in 1..2, n \in MutatedNumbers : MutateHeldPoint(i, n)) =>
          /\ gaugeHeap' = gaugeHeap
          /\ \A ref \in DOMAIN gaugeHeap :
                GaugeFlush(gaugeHeap'[ref], ref, now') = GaugeFlush(gaugeHeap[ref], ref, now)]_vars

C9_Witness ==
    /\ heldFrom = "gauge"
    /\ ~HeldIntact
    /\ \E h \in gaugeHandles : gaugeHeap[h[2]].value = Some(3)

\* C10 as claimed: the tags a flush attaches are a copy, so whatever the
\* caller does to the series it holds, the tags of every other series and of
\* every later flush are the tag list the registry was constructed with.
C10_TagsAreACopy ==
    [][\A i \in 1..4 :
          (\E tag \in MutatedTags : MutateHeldTags(i, tag)) =>
              /\ tagArrays'[tags'] = tagsGiven
              /\ \A j \in 1..Len(held) :
                    (j # i /\ held[j].tags # None) =>
                        tagArrays'[held'[j].tags[1]] = tagArrays[held[j].tags[1]]]_vars

\* The Reporter's timer is active, no tick is due, and so many whole intervals
\* have passed since it was constructed.
Running == config # None /\ intervalID # 0
NoTickDue == \A timer \in timers : timer.due > now
ElapsedIntervals == (now - config[1].startedAt) \div config[1].intervalMs

\* One transport call per elapsed interval when no tick found the flush empty.
OneCallPerInterval ==
    (Running /\ NoTickDue /\ stats.ticks = stats.tickCalls) =>
        stats.tickCalls = ElapsedIntervals

\* The latest operation is a tick's report() that called the transport.
TickCalled == lastOp.op = "report" /\ lastOp.origin = "tick" /\ lastOp.request # None

\* The request is a POST of {series: <the flush result>} to the configured url.
RequestCarriesFlush ==
    /\ lastOp.request[1].method = "POST"
    /\ lastOp.request[1].url = config[1].url
    /\ lastOp.request[1].body =
          "{\"series\":"
          \o StringifyArray([k \in 1..Len(lastOp.flushed) |-> StringifySeries(lastOp.flushed[k])])
          \o "}"
    /\ lastOp.flushed = <<[metric |-> "p", points |-> <<[ts |-> 1, values |-> <<3>>, backing |-> 0]>>,
                          tags |-> <<1>>]>>
          => lastOp.request[1].body =
                "{\"series\":[{\"metric\":\"p\",\"points\":[[1,[3]]],\"tags\":[\"env:prod\"]}]}"

\* C2 as claimed: one call per interval, each a POST of the flush result with
\* the caller's headers plus Content-Type: application/json.
C2_OneCallPerIntervalJson ==
    /\ OneCallPerInterval
    /\ TickCalled =>
          /\ RequestCarriesFlush
          /\ \A name \in DOMAIN config[1].headers :
                /\ name \in DOMAIN lastOp.request[1].headers
                /\ lastOp.request[1].headers[name] = config[1].headers[name]
          /\ "Content-Type" \in DOMAIN lastOp.request[1].headers
          /\ lastOp.request[1].headers["Content-Type"] = "application/json"

\* C2 as amended: the Content-Type is application/json unless the caller's
\* headers name a Content-Type, which then is the one sent.
C2_OneCallPerInterval ==
    /\ OneCallPerInterval
    /\ TickCalled =>
          /\ RequestCarriesFlush
          /\ \A name \in DOMAIN config[1].headers :
                /\ name \in DOMAIN lastOp.request[1].headers
                /\ lastOp.request[1].headers[name] = config[1].headers[name]
          /\ "Content-Type" \in DOMAIN lastOp.request[1].headers
          /\ "Content-Type" \notin DOMAIN config[1].headers =>
                lastOp.request[1].headers["Content-Type"] = "application/json"

C2_Witness ==
    /\ TickCalled
    /\ stats.tickCalls = 2
    /\ config[1].headers = AuthHeaders
    /\ lastOp.request[1].headers["Content-Type"] = "application/json"

\* A step that runs Reporter.report(): a tick, or the caller's own call.
ReportStep == (\E timer \in timers : Tick(timer)) \/ ManualReport

\* C3: a report() whose flush is empty makes no transport call, and over a
\* registry without gauges and states no call is ever made.
C3_SkipWhenEmpty ==
    /\ []((gauges = <<>> /\ states = <<>>) =>
             /\ pending = [tick |-> 0, manual |-> 0]
             /\ stats.tickCalls = 0
             /\ lastOp.request = None)
    /\ [][(ReportStep /\ MetricsFlush(now) = <<>>) =>
             /\ pending' = pending
             /\ lastOp'.request = None
             /\ stats'.tickCalls = stats.tickCalls]_vars

C3_Witness ==
    /\ gauges = <<>>
    /\ stats.ticks = 2
    /\ lastOp.op = "report"
    /\ lastOp.log = <<[level |-> "debug", message |-> "No metrics to report"]>>

\* The signal the Reporter was given has fired since the Reporter was constructed.
Cancelled ==
    /\ config # None
    /\ config[1].abortSignal
    /\ signalAborted
    /\ ~config[1].abortedBefore

\* C4: once the signal has fired the timer is cleared, and from then on no
\* tick runs and no tick starts a transport call.
C4_StoppedOnAbort ==
    /\ [](Cancelled => (intervalID = 0 /\ timers = {}))
    /\ [][Cancelled =>
             /\ stats'.ticks = stats.ticks
             /\ stats'.tickCalls = stats.tickCalls
             /\ pending'["tick"] <= pending["tick"]]_vars

C4_Witness ==
    /\ Cancelled
    /\ stats.tickCalls = 1
    /\ now >= config[1].startedAt + 2 * config[1].intervalMs

\* The latest operation is the end of a tick's report() whose transport failed.
TickFailed == lastOp.op = "settle" /\ lastOp.origin = "tick" /\ lastOp.failed

\* The one error line a failure of the model's transport is logged as.
FailureLines ==
    {<<[level |-> "error",
        message |-> "Error reporting metrics: TypeError: fetch failed"]>>,
     <<[level |-> "error",
        message |-> "Error reporting metrics: Error: unexpected response: 500 Server Error body: oops"]>>}

\* The timer of a running Reporter is alive and has fired at every interval.
TimerKeepsTicking ==
    Running =>
        /\ \E timer \in timers : timer.id = intervalID
        /\ NoTickDue => stats.ticks = ElapsedIntervals

\* C5 as claimed: a failed tick logs one error line with the failure text,
\* does not reject, and the timer keeps ticking.
C5_FailureLogged ==
    /\ TickFailed => (lastOp.log \in FailureLines /\ lastOp.promise = "fulfilled")
    /\ TimerKeepsTicking

\* C5 as amended: the error line is logged when the Reporter has a logger,
\* and nothing is logged when it has none.
C5_FailureIsolated ==
    /\ TickFailed =>
          /\ config[1].logger => lastOp.log \in FailureLines
          /\ ~config[1].logger => lastOp.log = <<>>
          /\ lastOp.promise = "fulfilled"
    /\ TimerKeepsTicking

C5_Witness ==
    /\ TickFailed
    /\ config[1].logger
    /\ Running
    /\ stats.tickCalls = 2

\* C6: the caller's own report() makes at most one transport call and its
\* promise is fulfilled whatever the transport does; a failure shows in the
\* log alone.
C6_ManualNeverRejects ==
    /\ [](lastOp.origin = "manual" =>
             /\ lastOp.op = "report" =>
                   /\ lastOp.promise \in {"fulfilled", "pending"}
                   /\ lastOp.promise = "pending" <=> lastOp.request # None
             /\ lastOp.op = "settle" =>
                   /\ lastOp.promise = "fulfilled"
                   /\ lastOp.log \in (IF lastOp.failed /\ config[1].logger
                                      THEN FailureLines ELSE {<<>>}))
    /\ [][ManualReport =>
             pending'["tick"] + pending'["manual"] <= pending["tick"] + pending["manual"] + 1]_vars

C6_Witness ==
    /\ lastOp.op = "settle"
    /\ lastOp.origin = "manual"
    /\ lastOp.failed
    /\ lastOp.log # <<>>

\* The steps of the caller, each told by what it leaves in heldFrom before
\* the action itself is evaluated.
FlushesMetrics == heldFrom' = "metrics" /\ CallMetricsFlush
FlushesGauge(h) == heldFrom' = "gauge" /\ CallGaugeFlush(h)
FlushesState(h) == heldFrom' = "state" /\ CallStateFlush(h)
SetsState(h, l) == heldFrom' = "none" /\ StateSet(h, l)
ClearsState(h) == heldFrom' = "none" /\ StateClear(h)

\* C11: State.flush() returns undefined when no label is set, and for the
\* label L of that moment one series named prefix_L with one point of value
\* 1; set() replaces the label whatever it was.
C11_StateFlush ==
    /\ [][\A h \in stateHandles :
             FlushesState(h) =>
                 LET s == stateHeap[h[2]]
                 IN /\ s.current = None => held' = <<>>
                    /\ s.current # None =>
                          /\ held' = <<[metric |-> s.prefix \o "_" \o s.current[1],
                                        points |-> <<[ts |-> t(now), values |-> <<1>>,
                                                      backing |-> 0]>>,
                                        tags |-> None]>>
                          /\ (s.prefix = "q" /\ s.current = <<"y">>) => held'[1].metric = "q_y"]_vars
    /\ [][\A h \in stateHandles, l \in Labels :
             SetsState(h, l) => stateHeap'[h[2]].current = Some(l)]_vars
    /\ [][\A h \in stateHandles :
             ClearsState(h) => StateFlush(stateHeap'[h[2]], now') = None]_vars
    /\ [](\A name \in StatePrefixes : StateFlush(NewState(name, FALSE), now) = None)

C11_Witness ==
    /\ heldFrom = "state"
    /\ Len(held) = 1
    /\ held[1].metric = "q_y"
    /\ held[1].points = <<[ts |-> 0, values |-> <<1>>, backing |-> 0]>>

\* The series of the State s with its label is among the series.
Reports(series, s) ==
    \E i \in 1..Len(series) :
        /\ series[i].metric = JoinUnderscore(s.prefix, s.current[1])
        /\ Len(series[i].points) = 1
        /\ series[i].points[1].values = <<1>>

\* C12: a flush reports the label of a State that has one; a State created
\* with clearOnFlush then has no label, so no later flush reports it until
\* set() is called again; a State created without it keeps its label through
\* every flush, and loses it only by clear() or another set().
C12_ClearOnFlush ==
    [][\A r \in DOMAIN stateHeap :
          LET s == stateHeap[r]
              flushed == \/ FlushesMetrics
                         \/ \E h \in stateHandles : h[2] = r /\ FlushesState(h)
          IN /\ (flushed /\ s.current # None) =>
                    /\ Reports(held', s)
                    /\ s.clearOnFlush => StateFlush(stateHeap'[r], now') = None
                    /\ ~s.clearOnFlush => stateHeap'[r] = s
             /\ (flushed /\ s.current = None) => StateFlush(stateHeap'[r], now') = None
             /\ stateHeap'[r].current # s.current =>
                    \/ \E h \in stateHandles, l \in Labels : h[2] = r /\ SetsState(h, l)
                    \/ \E h \in stateHandles : h[2] = r /\ ClearsState(h)
                    \/ flushed /\ s.clearOnFlush /\ stateHeap'[r].current = None]_vars

C12_Witness ==
    /\ heldFrom = "metrics"
    /\ \E r1 \in DOMAIN stateHeap, r2 \in DOMAIN stateHeap :
          /\ stateHeap[r1].clearOnFlush
          /\ stateHeap[r1].current = None
          /\ Reports(held, [stateHeap[r1] EXCEPT !.current = Some("x")])
          /\ ~stateHeap[r2].clearOnFlush
          /\ stateHeap[r2].current = Some("y")
          /\ Reports(held, stateHeap[r2])

\* The metric names of a sequence of series, in its order.
MetricNames(series) == [i \in 1..Len(series) |-> series[i].metric]

\* Instances are numbered as they are created, so the heaps are in creation
\* order: the names of all Gauges, and the names the States with a label
\* report under, each in creation order.
GaugeNamesAsCreated == [r \in 1..Len(gaugeHeap) |-> gaugeHeap[r].name]
StateNamesAsCreated ==
    LET labelled == SelectSeq(stateHeap, LAMBDA s : s.current # None)
    IN [k \in 1..Len(labelled) |-> labelled[k].prefix \o "_" \o labelled[k].current[1]]

\* C13: Metrics.flush() emits the gauges in the order they were created, then
\* the states that have a label in the order they were created, whatever the
\* order of the set() calls, so a repeated flush emits the same order.
C13_CreationOrder ==
    /\ [][FlushesMetrics =>
             MetricNames(held') = GaugeNamesAsCreated \o StateNamesAsCreated]_vars
    /\ [][(FlushesMetrics /\ stateHeap' = stateHeap) =>
             MetricNames(MetricsFlush(now')) = MetricNames(held')]_vars

C13_Witness ==
    /\ heldFrom = "metrics"
    /\ MetricNames(held) = <<"p_x", "p", "q_x", "p_y">>

\* C14: a flush leaves every Gauge as it was and reports the value the Gauge
\* holds, which is the value of the latest set(); so the next flush, with no
\* set() in between, reports the same value.
C14_ValueSurvivesFlush ==
    /\ [][(FlushesMetrics \/ \E h \in gaugeHandles : FlushesGauge(h)) =>
             gaugeHeap' = gaugeHeap]_vars
    /\ [][\A h \in gaugeHandles :
             FlushesGauge(h) =>
                 /\ SeriesValue(held'[1]) = gaugeHeap[h[2]].value
                 /\ SeriesValue(GaugeFlush(gaugeHeap'[h[2]], h[2], now')) = SeriesValue(held'[1])]_vars
    /\ [][FlushesMetrics =>
             \A i \in 1..Len(gauges) :
                 /\ SeriesValue(held'[i]) = gaugeHeap[gauges[i].ref].value
                 /\ SeriesValue(MetricsFlush(now')[i]) = SeriesValue(held'[i])]_vars
    /\ [][\A h \in gaugeHandles, v \in Values :
             GaugeSet(h, v) => gaugeHeap'[h[2]].value = Some(v)]_vars

C14_Witness ==
    /\ heldFrom = "gauge"
    /\ HeldIntact
    /\ heldAt >= 1000
    /\ SeriesValue(held[1]) = Some(4)
    /\ \E h \in gaugeHandles :
          gaugeHeap[h[2]].value = Some(4) /\ gaugeHeap[h[2]].setAt = Some(0)

\* C15: state(name, flag) returns the same State for the same name and
\* different States for different names; the clearOnFlush of a State is the
\* flag of the call that created it and never changes, so a later call with
\* another flag changes nothing, and a flush clears by the first flag.
C15_StateIdentity ==
    /\ [](\A h1 \in stateHandles, h2 \in stateHandles : (h1[1] = h2[1]) <=> (h1[2] = h2[2]))
    /\ [](\A h \in stateHandles : stateHeap[h[2]].prefix = h[1])
    /\ [][\A r \in DOMAIN stateHeap :
             stateHeap'[r].clearOnFlush = stateHeap[r].clearOnFlush]_vars
    /\ [][\A name \in StatePrefixes, c \in BOOLEAN :
             MetricsState(name, c) =>
                 IF MapGet(states, name) = None
                 THEN stateHeap'[Len(stateHeap) + 1].clearOnFlush = c
                 ELSE stateHeap' = stateHeap /\ states' = states]_vars
    /\ [][\A h \in stateHandles :
             (FlushesState(h) /\ stateHeap[h[2]].current # None) =>
                 (stateHeap'[h[2]].current = None <=> stateHeap[h[2]].clearOnFlush)]_vars

C15_Witness ==
    /\ heldFrom = "state"
    /\ held # <<>>
    /\ \E h1 \in stateHandles, h2 \in stateHandles :
          /\ h1[2] = h2[2]
          /\ ~h1[3] /\ h2[3]
          /\ ~stateHeap[h1[2]].clearOnFlush
          /\ stateHeap[h1[2]].current # None
          /\ held[1].metric = JoinUnderscore(h1[1], stateHeap[h1[2]].current[1])

\* C16: in a result of Metrics.flush() every series, of a gauge or of a
\* state, carries tags equal to the registry's tag list when that list is
\* non-empty, and no series has tags when it is empty.
C16_TagsUniform ==
    heldFrom = "metrics" =>
        \A i \in 1..Len(held) :
            IF Len(tagArrays[tags]) > 0
            THEN held[i].tags # None /\ tagArrays[held[i].tags[1]] = tagArrays[tags]
            ELSE held[i].tags = None

C16_Witness ==
    /\ heldFrom = "metrics"
    /\ tagArrays[tags] = <<"env:prod">>
    /\ Len(gauges) = 1
    /\ Len(held) = 3
    /\ \A i \in 1..3 : held[i].tags # None /\ tagArrays[held[i].tags[1]] = <<"env:prod">>

\* C17: gauge(n) and state(n) make two separate members; a call on a gauge
\* changes no state and a call on a state changes no gauge; and when both
\* hold data Metrics.flush() emits a series named n and another named
\* n_<label>.
C17_SeparateNamespaces ==
    /\ [](\A n \in GaugeNames \cap StatePrefixes :
             (MapGet(gauges, n) # None /\ MapGet(states, n) # None) =>
                 /\ gaugeHeap[MapGet(gauges, n)[1]].name = n
                 /\ stateHeap[MapGet(states, n)[1]].prefix = n)
    /\ [][(\/ \E name \in GaugeNames : MetricsGauge(name)
           \/ \E h \in gaugeHandles, v \in Values : GaugeSet(h, v)
           \/ \E h \in gaugeHandles : FlushesGauge(h)) =>
             (stateHeap' = stateHeap /\ states' = states)]_vars
    /\ [][(\/ \E name \in StatePrefixes, c \in BOOLEAN : MetricsState(name, c)
           \/ \E h \in stateHandles, l \in Labels : SetsState(h, l)
           \/ \E h \in stateHandles : ClearsState(h)
           \/ \E h \in stateHandles : FlushesState(h)) =>
             (gaugeHeap' = gaugeHeap /\ gauges' = gauges)]_vars
    /\ [][FlushesMetrics =>
             \A n \in GaugeNames \cap StatePrefixes :
                 LET g == MapGet(gauges, n)
                     s == MapGet(states, n)
                 IN (/\ g # None /\ s # None
                     /\ gaugeHeap[g[1]].value # None
                     /\ stateHeap[s[1]].current # None) =>
                        \E i \in 1..Len(held'), j \in 1..Len(held') :
                            /\ i # j
                            /\ held'[i].metric = n
                            /\ SeriesValue(held'[i]) = gaugeHeap[g[1]].value
                            /\ held'[j].metric = n \o "_" \o stateHeap[s[1]].current[1]
                            /\ SeriesValue(held'[j]) = Some(1)]_vars

C17_Witness ==
    /\ heldFrom = "metrics"
    /\ MapGet(gauges, "p") # None
    /\ MapGet(states, "p") # None
    /\ \E i \in 1..Len(held), j \in 1..Len(held) :
          /\ held[i].metric = "p" /\ SeriesValue(held[i]) = Some(3)
          /\ held[j].metric = "p_y" /\ SeriesValue(held[j]) = Some(1)

\* C18: the end of a report(), failed or not, starts no transport call and
\* gives nothing back to the registry; every transport call carries the flush
\* of its own report(); and a label that a flush cleared comes back only by
\* set().
C18_FailedReportDropped ==
    /\ [][\A origin \in {"tick", "manual"}, outcome \in FetchOutcomes :
             FetchSettles(origin, outcome) =>
                 /\ pending' = [pending EXCEPT ![origin] = @ - 1]
                 /\ lastOp'.request = None
                 /\ stats' = stats
                 /\ gaugeHeap' = gaugeHeap
                 /\ stateHeap' = stateHeap]_vars
    /\ [][ReportStep =>
             IF MetricsFlush(now) = <<>>
             THEN lastOp'.request = None
             ELSE /\ lastOp'.flushed = MetricsFlush(now)
                  /\ lastOp'.request[1].body =
                        "{\"series\":"
                        \o StringifyArray([k \in 1..Len(MetricsFlush(now)) |->
                                              StringifySeries(MetricsFlush(now)[k])])
                        \o "}"]_vars
    /\ [][ReportStep =>
             \A r \in DOMAIN stateHeap :
                 stateHeap[r].clearOnFlush => StateFlush(stateHeap'[r], now') = None]_vars
    /\ [][\A r \in DOMAIN stateHeap :
             (stateHeap[r].current = None /\ stateHeap'[r].current # None) =>
                 \E h \in stateHandles, l \in ReporterLabels : h[2] = r /\ SetsState(h, l)]_vars

C18_Witness ==
    /\ lastOp.op = "settle"
    /\ lastOp.origin = "tick"
    /\ lastOp.failed
    /\ stats.tickCalls = 1
    /\ pending = [tick |-> 0, manual |-> 0]
    /\ gauges = <<>>
    /\ states # <<>>
    /\ stateHeap[1].current = None

\* C19 as claimed: Metrics.flush() skips every member that has nothing to
\* report, so no series it emits, and none the Reporter submits, has an
\* empty point list.
C19_NoSeriesWithoutPoints ==
    (lastOp.op = "report" /\ lastOp.request # None) =>
        /\ lastOp.flushed # <<>>
        /\ \A k \in 1..Len(lastOp.flushed) : lastOp.flushed[k].points # <<>>

\* C20: every series a flush of a Gauge, a State or the registry returns has
\* at most one point, and every point has exactly one value.
C20_OnePointOneValue ==
    heldFrom # "none" =>
        \A i \in 1..Len(held) :
            /\ Len(held[i].points) <= 1
            /\ \A k \in 1..Len(held[i].points) : Len(held[i].points[k].values) = 1

C20_Witness ==
    /\ heldFrom = "metrics"
    /\ HeldIntact
    /\ Len(held) = 2
    /\ held[1].points = <<[ts |-> 1, values |-> <<4>>, backing |-> 0]>>
    /\ held[2].points = <<[ts |-> 1, values |-> <<1>>, backing |-> 0]>>

\* C21: Metrics.flush() changes neither which gauges and states are
\* registered, nor a gauge, nor the tags, nor a State created without
\* clearOnFlush; of a State created with clearOnFlush it unsets the label and
\* changes nothing else.
C21_FlushFrame ==
    [][FlushesMetrics =>
          /\ gauges' = gauges
          /\ states' = states
          /\ gaugeHeap' = gaugeHeap
          /\ tags' = tags
          /\ tagArrays' = tagArrays
          /\ DOMAIN stateHeap' = DOMAIN stateHeap
          /\ \A r \in DOMAIN stateHeap :
                stateHeap'[r] = IF stateHeap[r].clearOnFlush
                                THEN [stateHeap[r] EXCEPT !.current = None]
                                ELSE stateHeap[r]]_vars

C21_Witness ==
    /\ heldFrom = "metrics"
    /\ Len(gauges) = 2
    /\ gaugeHeap[1].value = Some(3)
    /\ gaugeHeap[2].value = None
    /\ Len(states) = 2
    /\ stateHeap[1].clearOnFlush /\ stateHeap[1].current = None
    /\ ~stateHeap[2].clearOnFlush /\ stateHeap[2].current = Some("x")
    /\ Len(held) = 4

\* C22: the Reporter has at most one active timer, the one _intervalID names,
\* and makes one timer in its life; once _intervalID is 0 again no step of
\* the Reporter starts a timer.
C22_OneTimerStoppedForever ==
    /\ [](Cardinality(timers) <= 1 /\ stats.setIntervals <= 1)
    /\ [](\A timer \in timers : timer.id = intervalID)
    /\ [](intervalID # 0 => timers # {})
    /\ [][(config # None /\ intervalID = 0) => (intervalID' = 0 /\ timers' = {})]_vars

C22_Witness ==
    /\ Cancelled
    /\ intervalID = 0
    /\ stats.ticks = 1
    /\ lastOp.op = "settle"
    /\ lastOp.origin = "manual"
    /\ ~lastOp.failed

\* C23: the abort stops the timer and leaves the sends in flight as they
\* are; on the stopped Reporter each of them can still complete, with every
\* outcome, and completes as on a running one: fulfilled, a failure logged.
C23_InFlightNotAborted ==
    /\ [][Abort => (pending' = pending /\ (config # None /\ config[1].abortSignal => intervalID' = 0))]_vars
    /\ [](\A origin \in {"tick", "manual"}, outcome \in FetchOutcomes :
             (Cancelled /\ pending[origin] > 0) => ENABLED FetchSettles(origin, outcome))
    /\ [][\A origin \in {"tick", "manual"}, outcome \in FetchOutcomes :
             (Cancelled /\ FetchSettles(origin, outcome)) =>
                 /\ lastOp'.promise = "fulfilled"
                 /\ lastOp'.failed = ~outcome.ok
                 /\ lastOp'.log \in (IF lastOp'.failed /\ config[1].logger
                                     THEN FailureLines ELSE {<<>>})
                 /\ intervalID' = 0]_vars

C23_Witness ==
    /\ Cancelled
    /\ intervalID = 0
    /\ lastOp.op = "settle"
    /\ lastOp.origin = "tick"
    /\ lastOp.failed
    /\ lastOp.log \in FailureLines
    /\ pending["tick"] = 1

\* The number of sends in flight.
InFlight(p) == p["tick"] + p["manual"]

\* C24: a report() starts a transport call for a non-empty flush however
\* many sends are in flight, so the sends in flight are as many as were
\* started and have not ended; the flush of a report() is one step: its
\* result and the labels it clears come from the same registry state.
C24_ReportsOverlap ==
    [][ReportStep =>
             /\ InFlight(pending') = InFlight(pending) + (IF MetricsFlush(now) = <<>> THEN 0 ELSE 1)
             /\ stateHeap' = StatesAfterFlush
             /\ gaugeHeap' = gaugeHeap
             /\ lastOp'.request # None => lastOp'.flushed = MetricsFlush(now)]_vars

C24_Witness ==
    /\ pending = [tick |-> 1, manual |-> 1]
    /\ lastOp.op = "report"
    /\ lastOp.origin = "tick"
    /\ lastOp.request # None

\* C25: while the Reporter runs, its timer is due one interval after the
\* latest tick's due time, so the k-th tick fires k intervals after the
\* construction; the end of a send leaves the timer as it is.
C25_FixedPeriod ==
    /\ [](Running =>
             \A timer \in timers :
                 /\ timer.period = config[1].intervalMs
                 /\ timer.due = config[1].startedAt + (stats.ticks + 1) * config[1].intervalMs)
    /\ [][\A timer \in timers :
             (timer.due = now /\ Tick(timer)) =>
                 /\ stats'.ticks = stats.ticks + 1
                 /\ now = config[1].startedAt + stats'.ticks * config[1].intervalMs]_vars
    /\ [][\A origin \in {"tick", "manual"}, outcome \in FetchOutcomes :
             (InFlight(pending') < InFlight(pending) /\ FetchSettles(origin, outcome)) =>
                 timers' = timers]_vars

C25_Witness ==
    /\ Running
    /\ stats.ticks = 2
    /\ pending["tick"] = 2
    /\ lastOp.op = "report"
    /\ now = config[1].startedAt + 2 * config[1].intervalMs

\* The Reporter was given a signal that had fired before the construction.
PreAborted == config # None /\ config[1].abortSignal /\ config[1].abortedBefore

\* C26: a Reporter constructed with a signal that has fired already runs its
\* timer and ticks at every interval; the abort listener never runs, so the
\* timer is never cleared.
C26_PreAbortedKeepsRunning ==
    /\ [](PreAborted =>
             /\ intervalID # 0
             /\ \E timer \in timers : timer.id = intervalID
             /\ NoTickDue => stats.ticks = ElapsedIntervals)
    /\ [][PreAborted => (lastOp'.op # "abort" /\ intervalID' = intervalID)]_vars

C26_Witness ==
    /\ PreAborted
    /\ stats.ticks = 2
    /\ stats.tickCalls = 2
    /\ lastOp.origin = "tick"

\* C27: a report() of the caller does the same whether the timer runs or is
\* stopped: it flushes the registry, which clears the clearOnFlush labels,
\* makes one transport call with the result unless it is empty, and leaves
\* the timer as it is.
C27_ReportWhenStopped ==
    [][(lastOp'.origin = "manual" /\ ManualReport) =>
          LET allSeries == MetricsFlush(now)
          IN /\ stateHeap' = StatesAfterFlush
             /\ intervalID' = intervalID
             /\ timers' = timers
             /\ IF allSeries = <<>>
                THEN pending' = pending /\ lastOp'.request = None
                ELSE /\ pending' = [pending EXCEPT !["manual"] = @ + 1]
                     /\ lastOp'.request =
                           Some(ReportRequest(config[1].url, config[1].headers, allSeries))]_vars

C27_Witness ==
    /\ Cancelled
    /\ intervalID = 0
    /\ lastOp.op = "report"
    /\ lastOp.origin = "manual"
    /\ lastOp.request # None
    /\ pending["manual"] = 1
    /\ \E k \in 1..Len(lastOp.flushed) : lastOp.flushed[k].metric = "q_x"
    /\ stateHeap[1].current = None

\* C28 as claimed: in one result of Metrics.flush() no two series have the
\* same metric name, whatever the gauge names, state prefixes and labels are.
C28_DistinctMetricNames ==
    heldFrom = "metrics" =>
        \A i \in 1..Len(held), j \in 1..Len(held) :
            i # j => held[i].metric # held[j].metric

====
